---- MODULE Spec2Model ----
(***************************************************************************)
(* Timestamp and chain verification (lib/pkcs9/pkcs7.go) and the           *)
(* PowerShell sign pipeline (signers/ps/signer.go) of relic.               *)
(*                                                                         *)
(* Cryptography is symbolic: a hash is the pair (algorithm, data), so two  *)
(* hashes are equal only when both agree, and a SignerInfo records the     *)
(* blob its encrypted digest was made over.  Go slices are a slice header  *)
(* (array, length) over a heap of backing arrays, so that append's writes  *)
(* into spare capacity are visible to every slice sharing the array.       *)
(***************************************************************************)
EXTENDS Integers, Sequences, FiniteSets, TLC

VARIABLES
    sig,      \* the pkcs7.Signature handed to the verifier
    sig2,     \* a second Signature whose Intermediates share sig's backing array
    heap,     \* backing arrays of certificate slices: array id -> contents
    ts,       \* what the latest VerifyTimestamp(sig) returned
    ts2,      \* what the latest VerifyTimestamp(sig2) returned
    opt,      \* what the latest VerifyOptionalTimestamp(sig) returned
    chain,    \* what the latest TimestampedSignature.VerifyChain returned
    tamper,   \* bookkeeping of an encrypted-digest change between two calls
    pc,       \* position inside ps.sign
    sopts,    \* the inputs of ps.sign: the ps-style flag and opts.Path
    slog,     \* the steps ps.sign has run, each with its outcome
    sret      \* what ps.sign returned

vars == <<sig, sig2, heap, ts, ts2, opt, chain, tamper, pc, sopts, slog, sret>>
verifyVars == <<sig, sig2, heap, ts, ts2, opt, chain, tamper>>
signVars == <<pc, sopts, slog, sret>>

---------------------------------------------------------------------------
(* Bounds *)

MaxDigest == 2     \* encrypted digests are 1..MaxDigest
MaxTime == 2       \* instants are ZeroTime..MaxTime
MaxSpare == 2      \* spare capacity of a backing array two signatures share

\* Go's zero time.Time (January 1, year 1): `var signingTime time.Time`
ZeroTime == 0

Digests == 1..MaxDigest
Instants == 1..MaxTime            \* the wall clock never reads the zero time

---------------------------------------------------------------------------
(* Errors *)

Nil == [kind |-> "nil", msg |-> ""]
Err(msg) == [kind |-> "error", msg |-> msg]
ErrNoAttribute(oid) == [kind |-> "ErrNoAttribute", msg |-> oid]
IsErrNoAttribute(err) == err.kind = "ErrNoAttribute"

---------------------------------------------------------------------------
(* Attribute identifiers *)

OidAttributeTimeStampToken == "OidAttributeTimeStampToken"
OidSpcTimeStampToken == "OidSpcTimeStampToken"
OidAttributeCounterSign == "OidAttributeCounterSign"
OidAttributeSigningTime == "OidAttributeSigningTime"

---------------------------------------------------------------------------
(* Digest algorithms and symbolic hashing *)

OidSHA1 == "oid-sha1"
OidSHA256 == "oid-sha256"
OidUnknown == "oid-unknown"
KnownAlgs == {OidSHA1, OidSHA256}

\* x509tools.PkixDigestToHash: (crypto.Hash, ok); an unknown OID gives (0, false)
PkixDigestToHash(oid) ==
    IF oid = OidSHA1 THEN [hash |-> 3, ok |-> TRUE]
    ELSE IF oid = OidSHA256 THEN [hash |-> 5, ok |-> TRUE]
    ELSE [hash |-> 0, ok |-> FALSE]

\* hash.New(); Write(data); Sum(nil): collision-free
HashOf(hash, data) == [h |-> hash, of |-> data]

MkImprint(alg, hm) == [HashAlgorithm |-> alg, HashedMessage |-> hm]
NoImprint == MkImprint("", HashOf(0, 0))

\* MessageImprint.Verify(data)
MessageImprintVerify(imprint, data) ==
    LET h == PkixDigestToHash(imprint.HashAlgorithm)
    IN  IF ~h.ok THEN Err("unsupported digest algorithm")
        ELSE IF HashOf(h.hash, data) # imprint.HashedMessage
             THEN Err("digest check failed")
        ELSE Nil

---------------------------------------------------------------------------
(* Blobs a SignerInfo can be a signature over *)

EncryptedDigestBlob(d) == [kind |-> "EncryptedDigest", d |-> d, imprint |-> NoImprint]
TSTInfoBlob(imprint) == [kind |-> "TSTInfo", d |-> 0, imprint |-> imprint]
GarbageBlob == [kind |-> "garbage", d |-> 0, imprint |-> NoImprint]
NoBlob == [kind |-> "none", d |-> 0, imprint |-> NoImprint]

---------------------------------------------------------------------------
(* Attribute lists.  An attribute list maps an OID to the sequence of the   *)
(* values stored under it: <<>> when the attribute is absent.               *)

\* AttributeList.GetOne(oid, &dest): dest is written only on success
GetOne(attrs, oid, dest) ==
    LET v == attrs[oid]
    IN  IF v = <<>> THEN [err |-> ErrNoAttribute(oid), val |-> dest]
        ELSE IF Len(v) > 1
             THEN [err |-> Err("expected one, found multiple"), val |-> dest]
        ELSE [err |-> Nil, val |-> v[1]]

---------------------------------------------------------------------------
(* Nested SignerInfos (of a timestamp token or a counter-signature) *)

MkSI(signer, signed, alg, st) ==
    [signer |-> signer, signed |-> signed, DigestAlgorithm |-> alg,
     AuthenticatedAttributes |-> [o \in {OidAttributeSigningTime} |-> st]]

\* `var tsi pkcs7.SignerInfo`
ZeroSI == MkSI("", NoBlob, "", <<>>)

InSeq(x, s) == \E i \in 1..Len(s) : s[i] = x

\* SignerInfo.Verify(content, skipDigests, certs): the certificate that made
\* the signature, which must be among certs, or an error
SignerInfoVerify(si, blob, certs) ==
    IF ~PkixDigestToHash(si.DigestAlgorithm).ok
    THEN [cert |-> "", err |-> Err("unsupported digest algorithm")]
    ELSE IF ~InSeq(si.signer, certs)
    THEN [cert |-> "", err |-> Err("certificate not found")]
    ELSE IF si.signed # blob
    THEN [cert |-> "", err |-> Err("signature verification failed")]
    ELSE [cert |-> si.signer, err |-> Nil]

---------------------------------------------------------------------------
(* Timestamp tokens (pkcs7.ContentInfoSignedData) *)

MkToken(sis, certsOk, certs, ckind, imprint) ==
    [SignerInfos |-> sis,
     Certificates |-> [ok |-> certsOk, certs |-> certs],
     Content |-> [kind |-> ckind, imprint |-> imprint]]

\* `var tst pkcs7.ContentInfoSignedData`
ZeroToken == MkToken(<<>>, TRUE, <<>>, "missing", NoImprint)

\* tst.Content.Certificates.Parse()
CertificatesParse(tst) ==
    IF tst.Certificates.ok
    THEN [certs |-> tst.Certificates.certs, err |-> Nil]
    ELSE [certs |-> <<>>, err |-> Err("malformed certificate")]

\* UnpackTokenInfo(&tst)
UnpackTokenInfo(tst) ==
    IF tst.Content.kind = "TSTInfo"
    THEN [MessageImprint |-> tst.Content.imprint, err |-> Nil]
    ELSE [MessageImprint |-> NoImprint, err |-> Err("not a TSTInfo")]

\* tst.Content.ContentInfo.Bytes(): the encoded payload
ContentInfoBytes(tst) ==
    IF tst.Content.kind = "missing"
    THEN [bytes |-> NoBlob, err |-> Err("missing content")]
    ELSE IF tst.Content.kind = "TSTInfo"
    THEN [bytes |-> TSTInfoBlob(tst.Content.imprint), err |-> Nil]
    ELSE [bytes |-> GarbageBlob, err |-> Nil]

---------------------------------------------------------------------------
(* Go slices of certificates *)

MkSlice(arr, len) == [arr |-> arr, len |-> len]
NilSlice == MkSlice(0, 0)
ArrIds == 1..4

\* the elements a slice header denotes
ReadSlice(h, s) == IF s.arr = 0 THEN <<>> ELSE SubSeq(h[s.arr], 1, s.len)

\* append(s, xs...): writes into the backing array when its capacity allows,
\* else copies into the new array `fresh`
GoAppend(h, s, xs, fresh) ==
    IF s.arr # 0 /\ s.len + Len(xs) <= Len(h[s.arr])
    THEN [heap |-> [h EXCEPT ![s.arr] =
                      [i \in 1..Len(@) |->
                         IF i > s.len /\ i <= s.len + Len(xs)
                         THEN xs[i - s.len] ELSE @[i]]],
          slice |-> MkSlice(s.arr, s.len + Len(xs))]
    ELSE [heap |-> [h EXCEPT ![fresh] = ReadSlice(h, s) \o xs],
          slice |-> MkSlice(fresh, s.len + Len(xs))]

---------------------------------------------------------------------------
(* Signatures and results *)

MkSignature(d, alg, attrs, ints) ==
    [SignerInfo |-> [EncryptedDigest |-> d, DigestAlgorithm |-> alg,
                     UnauthenticatedAttributes |-> attrs],
     Certificate |-> "leaf",
     Intermediates |-> ints]

MkAttrs(std, spc, cs) ==
    [o \in {OidAttributeTimeStampToken, OidSpcTimeStampToken, OidAttributeCounterSign} |->
        IF o = OidAttributeTimeStampToken THEN std
        ELSE IF o = OidSpcTimeStampToken THEN spc ELSE cs]

\* type CounterSignature struct; NilCS is the nil *CounterSignature
MkCS(tsi, cert, ints, hash, st) ==
    [isNil |-> FALSE, SignerInfo |-> tsi, Certificate |-> cert,
     Intermediates |-> ints, Hash |-> hash, SigningTime |-> st]
NilCS ==
    [isNil |-> TRUE, SignerInfo |-> ZeroSI, Certificate |-> "",
     Intermediates |-> NilSlice, Hash |-> 0, SigningTime |-> ZeroTime]

\* type TimestampedSignature struct
MkTS(sg, cs) == [Signature |-> sg, CounterSignature |-> cs]

\* What one VerifyTimestamp call returns (cs, err), the heap it leaves, the
\* steps it ran, and the blob and candidate certificates it handed to
\* tsi.Verify (NoBlob, <<>> when it returned before)
Ret(cs, err, h, trace, blob, cands) ==
    [cs |-> cs, err |-> err, heap |-> h, trace |-> trace,
     verifyBlob |-> blob, candidates |-> cands]
Fail(err, h, trace) == Ret(NilCS, err, h, trace, NoBlob, <<>>)

---------------------------------------------------------------------------
(* VerifyTimestamp *)

\* "check several OIDs for timestamp tokens"
TokenLookupSpcFirst(sg) ==
    LET attrs == sg.SignerInfo.UnauthenticatedAttributes
        r1 == GetOne(attrs, OidSpcTimeStampToken, ZeroToken)
    IN  IF IsErrNoAttribute(r1.err)
        THEN LET r2 == GetOne(attrs, OidAttributeTimeStampToken, r1.val)
             IN  [err |-> r2.err, tst |-> r2.val,
                  trace |-> <<"GetOne:SpcTimeStampToken", "GetOne:TimeStampToken">>]
        ELSE [err |-> r1.err, tst |-> r1.val, trace |-> <<"GetOne:SpcTimeStampToken">>]

TokenLookup(sg) ==
    LET attrs == sg.SignerInfo.UnauthenticatedAttributes
        r1 == GetOne(attrs, OidAttributeTimeStampToken, ZeroToken)
    IN  IF IsErrNoAttribute(r1.err)
        THEN LET r2 == GetOne(attrs, OidSpcTimeStampToken, r1.val)
             IN  [err |-> r2.err, tst |-> r2.val,
                  trace |-> <<"GetOne:TimeStampToken", "GetOne:SpcTimeStampToken">>]
        ELSE [err |-> r1.err, tst |-> r1.val, trace |-> <<"GetOne:TimeStampToken">>]

\* tsi.Verify, then the signing time, then the result
VerifyAndBuild(tsi, verifyBlob, imprintHash, certs, h, trace) ==
    LET cands == ReadSlice(h, certs)
        v == SignerInfoVerify(tsi, verifyBlob, cands)
        t1 == Append(trace, "tsi.Verify")
    IN  IF v.err # Nil THEN Ret(NilCS, v.err, h, t1, verifyBlob, cands)
        ELSE LET st == GetOne(tsi.AuthenticatedAttributes, OidAttributeSigningTime, ZeroTime)
                 t2 == Append(t1, "GetOne:SigningTime")
             IN  IF st.err # Nil THEN Ret(NilCS, st.err, h, t2, verifyBlob, cands)
                 ELSE Ret(MkCS(tsi, v.cert, certs, imprintHash, st.val),
                          Nil, h, t2, verifyBlob, cands)

SignerInfoCountOkLax(tst) == Len(tst.SignerInfos) >= 1

SignerInfoCountOk(tst) == Len(tst.SignerInfos) = 1

CheckImprintSkipped(tstinfo, sg) == Nil

CheckImprint(tstinfo, sg) ==
    LET verr == MessageImprintVerify(tstinfo.MessageImprint, sg.SignerInfo.EncryptedDigest)
    IN  IF verr # Nil
        THEN Err("failed to verify timestamp imprint: " \o verr.msg)
        ELSE Nil

\* "timestamptoken is a fully nested signedData containing a TSTInfo that
\* digests the parent signature blob"
TokenPath(sg, tst, h, fresh, trace) ==
    LET t1 == Append(trace, "len(SignerInfos)")
    IN
    IF ~SignerInfoCountOk(tst)
    THEN Fail(Err("timestamp should have exactly one SignerInfo"), h, t1)
    ELSE
    LET tsi == tst.SignerInfos[1]
        p == CertificatesParse(tst)
        t2 == Append(t1, "Certificates.Parse")
    IN
    IF p.err # Nil THEN Fail(p.err, h, t2)
    ELSE
    LET ap == IF Len(p.certs) # 0
              THEN GoAppend(h, sg.Intermediates, p.certs, fresh)
              ELSE [heap |-> h, slice |-> sg.Intermediates]
        u == UnpackTokenInfo(tst)
        t3 == Append(t2, "UnpackTokenInfo")
    IN
    IF u.err # Nil THEN Fail(u.err, ap.heap, t3)
    ELSE
    LET verr == CheckImprint(u, sg)
        t4 == Append(t3, "MessageImprint.Verify")
    IN
    IF verr # Nil THEN Fail(verr, ap.heap, t4)
    ELSE
    LET imprintHash == PkixDigestToHash(u.MessageImprint.HashAlgorithm).hash
        b == ContentInfoBytes(tst)
        t5 == Append(t4, "ContentInfo.Bytes")
    IN
    IF b.err # Nil THEN Fail(b.err, ap.heap, t5)
    ELSE VerifyAndBuild(tsi, b.bytes, imprintHash, ap.slice, ap.heap, t5)

CounterSignPathOwnAlgorithm(sg, h, trace) ==
    LET r == GetOne(sg.SignerInfo.UnauthenticatedAttributes, OidAttributeCounterSign, ZeroSI)
        t1 == Append(trace, "GetOne:CounterSign")
    IN  IF r.err # Nil THEN Fail(r.err, h, t1)
        ELSE VerifyAndBuild(r.val, EncryptedDigestBlob(sg.SignerInfo.EncryptedDigest),
                            PkixDigestToHash(r.val.DigestAlgorithm).hash,
                            sg.Intermediates, h, t1)

\* "counterSignature is simply a signerinfo. The certificate chain is included
\* in the parent structure, and the timestamp signs the signature blob from
\* the parent signerinfo"
CounterSignPath(sg, h, trace) ==
    LET r == GetOne(sg.SignerInfo.UnauthenticatedAttributes, OidAttributeCounterSign, ZeroSI)
        t1 == Append(trace, "GetOne:CounterSign")
    IN  IF r.err # Nil THEN Fail(r.err, h, t1)
        ELSE VerifyAndBuild(r.val, EncryptedDigestBlob(sg.SignerInfo.EncryptedDigest),
                            PkixDigestToHash(sg.SignerInfo.DigestAlgorithm).hash,
                            sg.Intermediates, h, t1)

VerifyTimestamp(sg, h, fresh) ==
    LET lk == TokenLookup(sg)
    IN  IF lk.err = Nil THEN TokenPath(sg, lk.tst, h, fresh, lk.trace)
        ELSE IF IsErrNoAttribute(lk.err) THEN CounterSignPath(sg, h, lk.trace)
        ELSE Fail(lk.err, h, lk.trace)

---------------------------------------------------------------------------
(* VerifyOptionalTimestamp *)

OptRet(tsig, err, r) ==
    [tsig |-> tsig, err |-> err, heap |-> r.heap, trace |-> r.trace, inner |-> r.err]

VerifyOptionalTimestampStrict(sg, h, fresh) ==
    LET r == VerifyTimestamp(sg, h, fresh)
    IN  IF r.err # Nil THEN OptRet(MkTS(sg, NilCS), r.err, r)
        ELSE OptRet(MkTS(sg, r.cs), Nil, r)

VerifyOptionalTimestamp(sg, h, fresh) ==
    LET r == VerifyTimestamp(sg, h, fresh)
    IN  IF IsErrNoAttribute(r.err) THEN OptRet(MkTS(sg, NilCS), Nil, r)
        ELSE IF r.err # Nil THEN OptRet(MkTS(sg, NilCS), r.err, r)
        ELSE OptRet(MkTS(sg, r.cs), Nil, r)

---------------------------------------------------------------------------
(* Certificates and x509 chain validation *)

CertInfo(c) ==
    IF c = "leaf" THEN [issuer |-> "ca", notBefore |-> 1, notAfter |-> 1, eku |-> {"CodeSigning"}]
    ELSE IF c = "ca" THEN [issuer |-> "root", notBefore |-> 1, notAfter |-> MaxTime,
                           eku |-> {"CodeSigning", "TimeStamping"}]
    ELSE IF c = "tsa1" THEN [issuer |-> "ca", notBefore |-> 1, notAfter |-> 1, eku |-> {"TimeStamping"}]
    ELSE IF c = "tsa2" THEN [issuer |-> "root", notBefore |-> 1, notAfter |-> MaxTime,
                             eku |-> {"TimeStamping"}]
    ELSE [issuer |-> "root", notBefore |-> 1, notAfter |-> MaxTime, eku |-> {"CodeSigning"}]

ValidAt(c, t) == CertInfo(c).notBefore <= t /\ t <= CertInfo(c).notAfter
SeqToSet(s) == {s[i] : i \in 1..Len(s)}
ExtKeyUsageTimeStamping == "TimeStamping"
ExtKeyUsages == {"CodeSigning", "TimeStamping"}
Roots == {"root"}

\* cert.Verify(x509.VerifyOptions{...}): a zero CurrentTime means the wall
\* clock `now`.  The result records the options and the instant used.
X509Verify(target, cert, pool, roots, currentTime, usage, now) ==
    LET t == IF currentTime = ZeroTime THEN now ELSE currentTime
        issuer == CertInfo(cert).issuer
        chained == \/ issuer \in roots
                   \/ /\ issuer \in pool
                      /\ ValidAt(issuer, t)
                      /\ CertInfo(issuer).issuer \in roots
        ok == ValidAt(cert, t) /\ usage \in CertInfo(cert).eku /\ chained
    IN  [target |-> target, cert |-> cert, pool |-> pool,
         CurrentTime |-> currentTime, KeyUsage |-> usage,
         at |-> t, usedNow |-> (currentTime = ZeroTime),
         err |-> IF ok THEN Nil ELSE Err("x509: certificate is not valid")]

\* pkcs7.Signature.VerifyChain(roots, extraCerts, usage, currentTime)
SignatureVerifyChain(sg, h, roots, extraCerts, usage, currentTime, now) ==
    X509Verify("signature", sg.Certificate,
               SeqToSet(extraCerts) \cup SeqToSet(ReadSlice(h, sg.Intermediates)),
               roots, currentTime, usage, now)

\* "Verify that the timestamp token has a valid certificate chain"
CounterSignatureVerifyChain(cs, h, roots, extraCerts, now) ==
    X509Verify("timestamp", cs.Certificate,
               SeqToSet(extraCerts) \cup SeqToSet(ReadSlice(h, cs.Intermediates)),
               roots, cs.SigningTime, ExtKeyUsageTimeStamping, now)

ChainRet(err, calls) == [err |-> err, calls |-> calls]

TimestampedSignatureVerifyChainLenient(tsig, h, roots, extraCerts, usage, now) ==
    IF ~tsig.CounterSignature.isNil
    THEN LET c == CounterSignatureVerifyChain(tsig.CounterSignature, h, roots, extraCerts, now)
             m == SignatureVerifyChain(tsig.Signature, h, roots, extraCerts, usage,
                                       tsig.CounterSignature.SigningTime, now)
         IN  ChainRet(m.err, <<c, m>>)
    ELSE LET m == SignatureVerifyChain(tsig.Signature, h, roots, extraCerts, usage,
                                       ZeroTime, now)
         IN  ChainRet(m.err, <<m>>)

TimestampedSignatureVerifyChain(tsig, h, roots, extraCerts, usage, now) ==
    IF ~tsig.CounterSignature.isNil
    THEN LET c == CounterSignatureVerifyChain(tsig.CounterSignature, h, roots, extraCerts, now)
         IN  IF c.err # Nil
             THEN ChainRet(Err("validating timestamp: " \o c.err.msg), <<c>>)
             ELSE LET m == SignatureVerifyChain(tsig.Signature, h, roots, extraCerts, usage,
                                                tsig.CounterSignature.SigningTime, now)
                  IN  ChainRet(m.err, <<c, m>>)
    ELSE LET m == SignatureVerifyChain(tsig.Signature, h, roots, extraCerts, usage,
                                       ZeroTime, now)
         IN  ChainRet(m.err, <<m>>)

---------------------------------------------------------------------------
(* The inputs explored *)

ParentIntermediates == <<"ca", "tsa1">>

TokenImprint(alg, d) == MkImprint(alg, HashOf(PkixDigestToHash(alg).hash, d))

\* A well-formed token over encrypted digest d.  Variant 1 is signed by a
\* certificate the parent carries and bundles none; variant 2 bundles its own.
GoodToken(v, d) ==
    LET alg == IF v = 1 THEN OidSHA256 ELSE OidSHA1
        signer == IF v = 1 THEN "tsa1" ELSE "tsa2"
        bundle == IF v = 1 THEN <<>> ELSE <<"tsa2">>
        st == IF v = 1 THEN 1 ELSE MaxTime
        imp == TokenImprint(alg, d)
    IN  MkToken(<<MkSI(signer, TSTInfoBlob(imp), OidSHA256, <<st>>)>>,
                TRUE, bundle, "TSTInfo", imp)

Faults == {"noSigningTime", "zeroSigningTime", "noSignerInfo", "twoSignerInfos",
           "badCertificates", "notTSTInfo", "unknownImprintAlgorithm",
           "badSignature", "unknownSigner"}

\* GoodToken(2, 1) with one thing wrong
FaultyToken(f) ==
    LET g == GoodToken(2, 1)
        si == g.SignerInfos[1]
    IN  IF f = "noSigningTime"
        THEN [g EXCEPT !.SignerInfos = <<MkSI(si.signer, si.signed, si.DigestAlgorithm, <<>>)>>]
        ELSE IF f = "zeroSigningTime"
        THEN [g EXCEPT !.SignerInfos = <<MkSI(si.signer, si.signed, si.DigestAlgorithm, <<ZeroTime>>)>>]
        ELSE IF f = "noSignerInfo" THEN [g EXCEPT !.SignerInfos = <<>>]
        ELSE IF f = "twoSignerInfos"
        THEN [g EXCEPT !.SignerInfos = <<si, GoodToken(1, 1).SignerInfos[1]>>]
        ELSE IF f = "badCertificates" THEN [g EXCEPT !.Certificates.ok = FALSE]
        ELSE IF f = "notTSTInfo" THEN [g EXCEPT !.Content.kind = "garbage"]
        ELSE IF f = "unknownImprintAlgorithm"
        THEN [g EXCEPT !.Content.imprint = MkImprint(OidUnknown, HashOf(0, 1))]
        ELSE IF f = "badSignature"
        THEN [g EXCEPT !.SignerInfos = <<MkSI(si.signer, GarbageBlob, si.DigestAlgorithm, <<1>>)>>]
        ELSE [g EXCEPT !.Certificates.certs = <<>>]

Tokens == {GoodToken(v, d) : v \in 1..2, d \in Digests} \cup {FaultyToken(f) : f \in Faults}

\* the values an unauthenticated timestamp-token attribute may hold
TokenAttrValues ==
    {<<>>} \cup {<<t>> : t \in Tokens} \cup {<<GoodToken(1, 1), GoodToken(2, 1)>>}

GoodCounterSign(d, st) == MkSI("tsa1", EncryptedDigestBlob(d), OidSHA1, st)

CounterSigns ==
    {GoodCounterSign(d, <<t>>) : d \in Digests, t \in {1}}
    \cup {GoodCounterSign(1, <<>>), GoodCounterSign(1, <<ZeroTime>>),
          GoodCounterSign(1, <<MaxTime>>),
          MkSI("tsa2", EncryptedDigestBlob(1), OidSHA1, <<1>>)}

CounterSignAttrValues ==
    {<<>>} \cup {<<s>> : s \in CounterSigns}
    \cup {<<GoodCounterSign(1, <<1>>), GoodCounterSign(1, <<1>>)>>}

\* tokens that differ in the certificates they bundle
Bundles == {<<>>, <<"tsa2">>, <<"tsa3">>, <<"tsa2", "tsa3">>}
BundleToken(b, d) == [GoodToken(1, d) EXCEPT !.Certificates.certs = b]

---------------------------------------------------------------------------
(* State *)

NotCalled ==
    [called |-> FALSE, cs |-> NilCS, err |-> Nil, trace |-> <<>>,
     verifyBlob |-> NoBlob, candidates |-> <<>>]
Called(r) ==
    [called |-> TRUE, cs |-> r.cs, err |-> r.err, trace |-> r.trace,
     verifyBlob |-> r.verifyBlob, candidates |-> r.candidates]

NoSignature == MkSignature(0, "", MkAttrs(<<>>, <<>>, <<>>), NilSlice)
OptNotCalled ==
    [called |-> FALSE, tsig |-> MkTS(NoSignature, NilCS), err |-> Nil,
     trace |-> <<>>, inner |-> Nil]
ChainNotCalled ==
    [called |-> FALSE, now |-> 0, usage |-> "", tsig |-> MkTS(NoSignature, NilCS),
     err |-> Nil, calls |-> <<>>]
NoTamper == [active |-> FALSE, prevOK |-> FALSE, from |-> 0]

\* a backing array holding elems followed by `spare` unused slots
Backing(elems, spare) == elems \o [i \in 1..spare |-> "nil"]
EmptyHeap == [a \in ArrIds |-> <<>>]

SignIdle ==
    /\ pc = "idle"
    /\ sopts = [flag |-> "", path |-> "", hash |-> ""]
    /\ slog = <<>>
    /\ sret = [result |-> [isNil |-> TRUE, style |-> "", hash |-> ""], err |-> Nil]

VerifyIdle ==
    /\ sig = NoSignature
    /\ sig2 = NoSignature
    /\ heap = EmptyHeap
    /\ ts = NotCalled
    /\ ts2 = NotCalled
    /\ opt = OptNotCalled
    /\ chain = ChainNotCalled
    /\ tamper = NoTamper

\* An already-validated signature: its digest algorithm is a supported one
Init ==
    /\ \E d \in Digests, alg \in KnownAlgs,
          std \in TokenAttrValues, spc \in TokenAttrValues, cs \in CounterSignAttrValues :
          sig = MkSignature(d, alg, MkAttrs(std, spc, cs), MkSlice(1, Len(ParentIntermediates)))
    /\ sig2 = NoSignature
    /\ heap = [EmptyHeap EXCEPT ![1] = ParentIntermediates]
    /\ ts = NotCalled
    /\ ts2 = NotCalled
    /\ opt = OptNotCalled
    /\ chain = ChainNotCalled
    /\ tamper = NoTamper
    /\ SignIdle

---------------------------------------------------------------------------
(* Calls *)

CallVerifyTimestamp ==
    LET r == VerifyTimestamp(sig, heap, 2)
    IN  /\ ts' = Called(r)
        /\ heap' = r.heap
        /\ UNCHANGED <<sig, sig2, ts2, opt, chain, tamper>>
        /\ UNCHANGED signVars

CallVerifyTimestamp2 ==
    LET r == VerifyTimestamp(sig2, heap, 4)
    IN  /\ ts2' = Called(r)
        /\ heap' = r.heap
        /\ UNCHANGED <<sig, sig2, ts, opt, chain, tamper>>
        /\ UNCHANGED signVars

CallVerifyOptionalTimestamp ==
    LET r == VerifyOptionalTimestamp(sig, heap, 3)
    IN  /\ opt' = [called |-> TRUE, tsig |-> r.tsig, err |-> r.err,
                   trace |-> r.trace, inner |-> r.inner]
        /\ heap' = r.heap
        /\ chain' = ChainNotCalled
        /\ UNCHANGED <<sig, sig2, ts, ts2, tamper>>
        /\ UNCHANGED signVars

\* the caller validates the chains of a signature it got without error
CallVerifyChain ==
    /\ opt.called
    /\ opt.err = Nil
    /\ \E now \in Instants, usage \in ExtKeyUsages :
          LET r == TimestampedSignatureVerifyChain(opt.tsig, heap, Roots, <<>>, usage, now)
          IN  chain' = [called |-> TRUE, now |-> now, usage |-> usage, tsig |-> opt.tsig,
                        err |-> r.err, calls |-> r.calls]
    /\ UNCHANGED <<sig, sig2, heap, ts, ts2, opt, tamper>>
    /\ UNCHANGED signVars

\* The encrypted digest of the SignerInfo changes after a VerifyTimestamp
\* call; every attribute stays as it was
Tamper ==
    /\ ts.called
    /\ \E d \in Digests \ {sig.SignerInfo.EncryptedDigest} :
          sig' = [sig EXCEPT !.SignerInfo.EncryptedDigest = d]
    /\ tamper' = [active |-> TRUE, prevOK |-> (ts.err = Nil),
                  from |-> sig.SignerInfo.EncryptedDigest]
    /\ ts' = NotCalled
    /\ opt' = OptNotCalled
    /\ chain' = ChainNotCalled
    /\ heap' = [EmptyHeap EXCEPT ![1] = heap[1]]
    /\ UNCHANGED <<sig2, ts2>>
    /\ UNCHANGED signVars

Next ==
    \/ CallVerifyTimestamp
    \/ CallVerifyOptionalTimestamp
    \/ CallVerifyChain
    \/ Tamper

Spec == Init /\ [][Next]_vars

---------------------------------------------------------------------------
(* Two signatures over one backing array *)

InitShared ==
    /\ \E d1 \in Digests, d2 \in Digests, b1 \in Bundles, b2 \in Bundles, spare \in 0..MaxSpare :
          /\ sig = MkSignature(d1, OidSHA256, MkAttrs(<<BundleToken(b1, d1)>>, <<>>, <<>>),
                               MkSlice(1, Len(ParentIntermediates)))
          /\ sig2 = MkSignature(d2, OidSHA256, MkAttrs(<<BundleToken(b2, d2)>>, <<>>, <<>>),
                                MkSlice(1, Len(ParentIntermediates)))
          /\ heap = [EmptyHeap EXCEPT ![1] = Backing(ParentIntermediates, spare)]
    /\ ts = NotCalled
    /\ ts2 = NotCalled
    /\ opt = OptNotCalled
    /\ chain = ChainNotCalled
    /\ tamper = NoTamper
    /\ SignIdle

NextShared ==
    \/ CallVerifyTimestamp
    \/ CallVerifyTimestamp2

SpecShared == InitShared /\ [][NextShared]_vars

---------------------------------------------------------------------------
(* ps.sign *)

SignOrder == <<"getStyle", "DigestPowershell", "Sign", "Timestamp", "MakePatch", "SetBinPatch">>

NilBytes == [isNil |-> TRUE, style |-> "", hash |-> ""]
PatchBytes(style, hash) == [isNil |-> FALSE, style |-> style, hash |-> hash]

\* authenticode.GetSigStyle(name): the style of a file name, by its extension
GetSigStyle(name) ==
    IF name \in {"script.ps1", "module.psm1", "x.ps1"} THEN [style |-> "SigStyleHash", ok |-> TRUE]
    ELSE IF name \in {"types.ps1xml", "x.ps1xml"} THEN [style |-> "SigStyleXml", ok |-> TRUE]
    ELSE [style |-> "", ok |-> FALSE]

getStyle(name) ==
    LET r == GetSigStyle(name)
    IN  IF ~r.ok
        THEN [style |-> "", err |-> Err("unknown powershell style, expected: ps1 ps1xml")]
        ELSE [style |-> r.style, err |-> Nil]

StyleFlags == {"", "x.ps1xml", "bogus"}
Paths == {"script.ps1", "types.ps1xml", "notes.txt"}
SignHashes == {"SHA1", "SHA256"}

Logged(step, err, out) == [step |-> step, err |-> err, out |-> out]
Outcomes(step) == {Nil, Err(step \o " failed")}

InitSign ==
    /\ VerifyIdle
    /\ pc = "getStyle"
    /\ \E f \in StyleFlags, p \in Paths, h \in SignHashes :
          sopts = [flag |-> f, path |-> p, hash |-> h]
    /\ slog = <<>>
    /\ sret = [result |-> NilBytes, err |-> Nil]

\* a step that failed: `return nil, err`
ReturnErr(step, err) ==
    /\ slog' = Append(slog, Logged(step, err, ""))
    /\ sret' = [result |-> NilBytes, err |-> err]
    /\ pc' = "done"

StepGetStyle ==
    /\ pc = "getStyle"
    /\ LET argStyle == IF sopts.flag = "" THEN sopts.path ELSE sopts.flag
           r == getStyle(argStyle)
       IN  IF r.err # Nil THEN ReturnErr("getStyle", r.err)
           ELSE /\ slog' = Append(slog, Logged("getStyle", Nil, r.style))
                /\ pc' = "DigestPowershell"
                /\ UNCHANGED sret
    /\ UNCHANGED sopts
    /\ UNCHANGED verifyVars

\* after an external call: `if err != nil { return nil, err }`, else go on
Continue(step, err, next) ==
    IF err # Nil THEN ReturnErr(step, err)
    ELSE /\ slog' = Append(slog, Logged(step, Nil, ""))
         /\ pc' = next
         /\ UNCHANGED sret

StepDigestPowershell ==
    /\ pc = "DigestPowershell"
    /\ \E err \in Outcomes("DigestPowershell") : Continue("DigestPowershell", err, "Sign")
    /\ UNCHANGED sopts
    /\ UNCHANGED verifyVars

StepSign ==
    /\ pc = "Sign"
    /\ \E err \in Outcomes("Sign") : Continue("Sign", err, "Timestamp")
    /\ UNCHANGED sopts
    /\ UNCHANGED verifyVars

\* a failed timestamp request is logged and the unstamped blob goes on
StepTimestampOptional ==
    /\ pc = "Timestamp"
    /\ \E err \in Outcomes("Timestamp") :
          /\ slog' = Append(slog, Logged("Timestamp", err, ""))
          /\ pc' = "MakePatch"
          /\ UNCHANGED sret
    /\ UNCHANGED sopts
    /\ UNCHANGED verifyVars

StepTimestamp ==
    /\ pc = "Timestamp"
    /\ \E err \in Outcomes("Timestamp") : Continue("Timestamp", err, "MakePatch")
    /\ UNCHANGED sopts
    /\ UNCHANGED verifyVars

StepMakePatch ==
    /\ pc = "MakePatch"
    /\ \E err \in Outcomes("MakePatch") : Continue("MakePatch", err, "SetBinPatch")
    /\ UNCHANGED sopts
    /\ UNCHANGED verifyVars

\* `return opts.SetBinPatch(patch)`: what SetBinPatch returns is returned
StepSetBinPatch ==
    /\ pc = "SetBinPatch"
    /\ \E err \in Outcomes("SetBinPatch") :
          /\ slog' = Append(slog, Logged("SetBinPatch", err, ""))
          /\ sret' = [result |-> IF err = Nil THEN PatchBytes(slog[1].out, sopts.hash)
                                 ELSE NilBytes,
                      err |-> err]
    /\ pc' = "done"
    /\ UNCHANGED sopts
    /\ UNCHANGED verifyVars

NextSign ==
    \/ StepGetStyle
    \/ StepDigestPowershell
    \/ StepSign
    \/ StepTimestamp
    \/ StepMakePatch
    \/ StepSetBinPatch

SpecSign == InitSign /\ [][NextSign]_vars

---------------------------------------------------------------------------
(* Vocabulary of the properties *)

Attrs == sig.SignerInfo.UnauthenticatedAttributes
StdAttr == Attrs[OidAttributeTimeStampToken]
SpcAttr == Attrs[OidSpcTimeStampToken]
CsAttr == Attrs[OidAttributeCounterSign]
Last(s) == s[Len(s)]
Ran(step, trace) == InSeq(step, trace)
HashOfAlg(oid) == PkixDigestToHash(oid).hash
CountError == Err("timestamp should have exactly one SignerInfo")

\* the token the priority order selects: the standard attribute's if it holds
\* one value, else the authenticode attribute's if the standard one is absent
SelectedTokens ==
    IF Len(StdAttr) = 1 THEN {StdAttr[1]}
    ELSE IF StdAttr = <<>> /\ Len(SpcAttr) = 1 THEN {SpcAttr[1]}
    ELSE {}

LegacySelected == StdAttr = <<>> /\ SpcAttr = <<>> /\ Len(CsAttr) = 1

\* the nested SignerInfo a timestamp verification is about
SelectedSignerInfos ==
    {t.SignerInfos[1] : t \in {u \in SelectedTokens : Len(u.SignerInfos) = 1}}
    \cup (IF LegacySelected THEN {CsAttr[1]} ELSE {})

\* a call with result r worked on token tst and on nothing else
UsesToken(r, tst) ==
    /\ r.trace[1] = "GetOne:TimeStampToken"
    /\ ~Ran("GetOne:SpcTimeStampToken", r.trace)
    /\ ~Ran("GetOne:CounterSign", r.trace)
    /\ Ran("ContentInfo.Bytes", r.trace) =>
          MessageImprintVerify(tst.Content.imprint, sig.SignerInfo.EncryptedDigest) = Nil
    /\ Ran("tsi.Verify", r.trace) =>
          /\ r.verifyBlob = TSTInfoBlob(tst.Content.imprint)
          /\ r.candidates = ParentIntermediates \o tst.Certificates.certs
    /\ r.err = Nil =>
          /\ ~r.cs.isNil
          /\ r.cs.SignerInfo = tst.SignerInfos[1]
          /\ r.cs.Certificate = tst.SignerInfos[1].signer
          /\ r.cs.Hash = HashOfAlg(tst.Content.imprint.HashAlgorithm)
          /\ ReadSlice(heap, r.cs.Intermediates) = ParentIntermediates \o tst.Certificates.certs

---------------------------------------------------------------------------
(* Properties *)

\* C1: with both a standard and an authenticode timestamp attribute present,
\* VerifyTimestamp works on the standard attribute's token (nested SignerInfo,
\* imprint, bundled certificates), and the authenticode attribute is looked
\* up only when the standard lookup reported attribute-not-found.
C1_StandardTokenFirst ==
    ts.called =>
        /\ Ran("GetOne:SpcTimeStampToken", ts.trace) => StdAttr = <<>>
        /\ (Len(StdAttr) = 1 /\ SpcAttr # <<>>) => UsesToken(ts, StdAttr[1])
        /\ (Len(StdAttr) > 1 /\ SpcAttr # <<>>) =>
              ts.err # Nil /\ ts.cs.isNil /\ ts.trace = <<"GetOne:TimeStampToken">>

C1_Witness ==
    /\ ts.called
    /\ ts.err = Nil
    /\ Len(StdAttr) = 1
    /\ Len(SpcAttr) = 1
    /\ StdAttr[1] = GoodToken(2, sig.SignerInfo.EncryptedDigest)
    /\ SpcAttr[1] = GoodToken(1, sig.SignerInfo.EncryptedDigest)

\* C2 (as claimed): a nested SignerInfo that verifies but carries no signing
\* time makes VerifyTimestamp fail and VerifyOptionalTimestamp return that
\* error; a successful result without CounterSignature arises only when all
\* three timestamp attributes are absent.
C2_MissingSigningTimePropagates ==
    /\ \A si \in SelectedSignerInfos :
          (/\ opt.called
           /\ Last(opt.trace) = "GetOne:SigningTime"
           /\ si.AuthenticatedAttributes[OidAttributeSigningTime] = <<>>)
          => (opt.inner # Nil /\ opt.err # Nil)
    /\ (opt.called /\ opt.err = Nil /\ opt.tsig.CounterSignature.isNil)
          => (StdAttr = <<>> /\ SpcAttr = <<>> /\ CsAttr = <<>>)

\* C3: with none of the three timestamp attributes, VerifyOptionalTimestamp
\* returns no error, the input signature and no CounterSignature.
C3_AbsentTimestampIsNoError ==
    (opt.called /\ StdAttr = <<>> /\ SpcAttr = <<>> /\ CsAttr = <<>>) =>
        /\ opt.err = Nil
        /\ opt.tsig.Signature = sig
        /\ opt.tsig.CounterSignature.isNil
        /\ IsErrNoAttribute(opt.inner)

C3_Witness ==
    /\ opt.called
    /\ StdAttr = <<>> /\ SpcAttr = <<>> /\ CsAttr = <<>>
    /\ opt.err = Nil

\* C4: after VerifyTimestamp succeeded, a different encrypted digest with the
\* attributes unchanged makes VerifyTimestamp fail on every path and return
\* no CounterSignature: on a token path at the imprint check, on the
\* counter-signature path at the nested SignerInfo's verification.
C4_TamperedDigestFails ==
    (tamper.active /\ tamper.prevOK) =>
        /\ tamper.from # sig.SignerInfo.EncryptedDigest
        /\ ts.called =>
              /\ ts.err # Nil
              /\ ts.cs.isNil
              /\ SelectedTokens # {} =>
                    /\ Last(ts.trace) = "MessageImprint.Verify"
                    /\ ts.err = Err("failed to verify timestamp imprint: digest check failed")
              /\ SelectedTokens = {} =>
                    /\ LegacySelected
                    /\ Last(ts.trace) = "tsi.Verify"
        /\ opt.called => (opt.err # Nil /\ opt.tsig.CounterSignature.isNil)

C4_Witness ==
    /\ tamper.active
    /\ tamper.prevOK
    /\ ts.called
    /\ opt.called
    /\ LegacySelected

\* C5 (as claimed): the main chain is validated at the CounterSignature's
\* SigningTime when one is present and at the current time when none is; the
\* main chain of a timestamped signature is never validated at the current time.
C5_MainChainReferenceTime ==
    chain.called =>
        \A i \in 1..Len(chain.calls) :
            chain.calls[i].target = "signature" =>
                IF chain.tsig.CounterSignature.isNil
                THEN chain.calls[i].usedNow /\ chain.calls[i].at = chain.now
                ELSE /\ ~chain.calls[i].usedNow
                     /\ chain.calls[i].at = chain.tsig.CounterSignature.SigningTime

\* C6: a selected token whose SignedData holds a number of SignerInfos other
\* than one makes VerifyTimestamp return the "exactly one SignerInfo" error
\* before it parses certificates, checks the imprint or verifies, and
\* VerifyOptionalTimestamp returns that error.
C6_ExactlyOneSignerInfo ==
    \A t \in SelectedTokens :
        Len(t.SignerInfos) # 1 =>
            /\ ts.called =>
                  /\ ts.err = CountError
                  /\ ts.cs.isNil
                  /\ Last(ts.trace) = "len(SignerInfos)"
                  /\ \A step \in {"Certificates.Parse", "UnpackTokenInfo", "MessageImprint.Verify",
                                  "ContentInfo.Bytes", "tsi.Verify", "GetOne:SigningTime"} :
                        ~Ran(step, ts.trace)
                  /\ heap[2] = <<>>
            /\ opt.called =>
                  /\ opt.err = CountError
                  /\ opt.tsig.CounterSignature.isNil

C6_Witness ==
    /\ ts.called
    /\ opt.called
    /\ StdAttr = <<>>
    /\ SpcAttr = <<FaultyToken("twoSignerInfos")>>
    /\ sig.SignerInfo.EncryptedDigest = 1

\* C7: on the counter-signature path the nested SignerInfo is verified over
\* the parent's encrypted digest with the parent's intermediates only, and the
\* result's Hash is the parent's digest algorithm; on a token path the Hash is
\* the imprint's algorithm and the verified bytes are the encoded TSTInfo.
C7_LegacyCounterSignature ==
    ts.called =>
        /\ LegacySelected =>
              /\ Ran("GetOne:CounterSign", ts.trace)
              /\ Ran("tsi.Verify", ts.trace)
              /\ ts.verifyBlob = EncryptedDigestBlob(sig.SignerInfo.EncryptedDigest)
              /\ ts.candidates = ReadSlice(heap, sig.Intermediates)
              /\ ts.candidates = ParentIntermediates
              /\ ts.err = Nil =>
                    /\ ts.cs.SignerInfo = CsAttr[1]
                    /\ ts.cs.Hash = HashOfAlg(sig.SignerInfo.DigestAlgorithm)
                    /\ ts.cs.Hash # 0
                    /\ ReadSlice(heap, ts.cs.Intermediates) = ParentIntermediates
        /\ \A t \in SelectedTokens :
              ts.err = Nil =>
                  /\ ts.cs.Hash = HashOfAlg(t.Content.imprint.HashAlgorithm)
                  /\ ts.cs.Hash # 0
                  /\ ts.verifyBlob = TSTInfoBlob(t.Content.imprint)

C7_Witness ==
    /\ ts.called
    /\ LegacySelected
    /\ ts.err = Nil
    /\ sig.SignerInfo.DigestAlgorithm # CsAttr[1].DigestAlgorithm

\* C8: ps.sign runs getStyle, DigestPowershell, Sign, Timestamp, MakePatch,
\* SetBinPatch in this order; a step runs only after every earlier one
\* succeeded; a failing step ends sign with that error and a nil result, so a
\* result is returned only when all six succeeded.
C8_SignPipelineOrder ==
    /\ Len(slog) <= Len(SignOrder)
    /\ \A i \in 1..Len(slog) :
          /\ slog[i].step = SignOrder[i]
          /\ \A j \in 1..(i - 1) : slog[j].err = Nil
    /\ pc # "done" =>
          /\ sret.result.isNil /\ sret.err = Nil
          /\ Len(slog) < Len(SignOrder)
          /\ pc = SignOrder[Len(slog) + 1]
    /\ pc = "done" =>
          /\ Len(slog) >= 1
          /\ sret.err = Last(slog).err
          /\ sret.err # Nil => sret.result.isNil
          /\ sret.err = Nil =>
                /\ Len(slog) = Len(SignOrder)
                /\ ~sret.result.isNil
                /\ sret.result.style = slog[1].out
    /\ Ran("MakePatch", [i \in 1..Len(slog) |-> slog[i].step]) =>
          \A i \in 1..4 : slog[i].err = Nil

C8_Witness ==
    /\ pc = "done"
    /\ Len(slog) = 4
    /\ slog[4].step = "Timestamp"
    /\ slog[4].err # Nil
    /\ sret.result.isNil
    /\ sopts.flag # ""

C10_ResultsStayApart ==
    /\ ReadSlice(heap, sig.Intermediates) = ParentIntermediates
    /\ ReadSlice(heap, sig2.Intermediates) = ParentIntermediates
    /\ (ts.called /\ ~ts.cs.isNil) =>
          ReadSlice(heap, ts.cs.Intermediates) =
              ParentIntermediates \o StdAttr[1].Certificates.certs
    /\ (ts2.called /\ ~ts2.cs.isNil) =>
          ReadSlice(heap, ts2.cs.Intermediates) =
              ParentIntermediates
              \o sig2.SignerInfo.UnauthenticatedAttributes[OidAttributeTimeStampToken][1].Certificates.certs

====
